---------------------------- MODULE Spec2Model ----------------------------
(***************************************************************************)
(* GPU PCIe topology and link audit (tests/test_gpu_pcie.py).              *)
(*                                                                         *)
(* Text is modelled as TLA+ strings; a character is a string of length 1.  *)
(* Every regular expression of the source is an operator over the text it  *)
(* is applied to, every int()/float()/format call an operator computing    *)
(* the same value.                                                         *)
(***************************************************************************)
EXTENDS Integers, Sequences, FiniteSets, TLC

VARIABLES
    pc,              \* position in test_gpu_pcie_topology_and_links
    scan,            \* what the lspci enumeration answered
    gpus,            \* discover_gpu_bdfs(): sorted list of "BB:DD.F"
    whichDmidecode,  \* what shutil.which("dmidecode") answered
    dmi_desig,       \* DMI_DESIG: Bus Address -> Designation
    dmi_type,        \* DMI_TYPE:  Bus Address -> Type
    i,               \* index of the next GPU of the loop
    hw,              \* per visited GPU, what sysfs and lspci -vv answered
    rows,            \* rows: the table of GPU reports
    downgraded,      \* downgraded: GPUs whose status is DOWNGRADED
    noBridges,       \* GPUs printed as "(no bridges found)"
    outcome,         \* pytest outcome of the test
    probe            \* a single application of one pure function

runVars == <<pc, scan, gpus, whichDmidecode, dmi_desig, dmi_type, i,
             hw, rows, downgraded, noBridges, outcome>>

vars == <<pc, scan, gpus, whichDmidecode, dmi_desig, dmi_type, i,
          hw, rows, downgraded, noBridges, outcome, probe>>

---------------------------------------------------------------------------
(* Text primitives: characters, character classes, int() and formatting.  *)

Char(s, k) == SubSeq(s, k, k)

LowerHex == "0123456789abcdef"

UpperHex == "0123456789ABCDEF"

IsDigit(c) == \E k \in 1..10 : Char(LowerHex, k) = c

IsHex(c) == \E k \in 1..16 : Char(LowerHex, k) = c \/ Char(UpperHex, k) = c

IsOct(c) == \E k \in 1..8 : Char(LowerHex, k) = c

AllHex(s) == \A k \in 1..Len(s) : IsHex(Char(s, k))

AllDigits(s) == \A k \in 1..Len(s) : IsDigit(Char(s, k))

DigitVal(c) ==
    (CHOOSE k \in 1..16 : Char(LowerHex, k) = c \/ Char(UpperHex, k) = c) - 1

\* int(s, 16)
RECURSIVE HexInt(_)
HexInt(s) ==
    IF Len(s) = 0 THEN 0
    ELSE 16 * HexInt(SubSeq(s, 1, Len(s) - 1)) + DigitVal(Char(s, Len(s)))

\* int(s)
RECURSIVE DecInt(_)
DecInt(s) ==
    IF Len(s) = 0 THEN 0
    ELSE 10 * DecInt(SubSeq(s, 1, Len(s) - 1)) + DigitVal(Char(s, Len(s)))

RECURSIVE HexDigitsOf(_)
HexDigitsOf(n) ==
    IF n < 16 THEN Char(LowerHex, n + 1)
    ELSE HexDigitsOf(n \div 16) \o Char(LowerHex, (n % 16) + 1)

RECURSIVE ZeroPad(_, _)
ZeroPad(s, w) == IF Len(s) >= w THEN s ELSE ZeroPad("0" \o s, w)

\* f"{n:0<w>x}"
HexStr(n, w) == ZeroPad(HexDigitsOf(n), w)

\* r"^([0-9a-fA-F]{4}):([0-9a-fA-F]{2}):([0-9a-fA-F]{2})\.([0-7])$"
MatchBdf(s) ==
    /\ Len(s) = 12
    /\ AllHex(SubSeq(s, 1, 4))
    /\ Char(s, 5) = ":"
    /\ AllHex(SubSeq(s, 6, 7))
    /\ Char(s, 8) = ":"
    /\ AllHex(SubSeq(s, 9, 10))
    /\ Char(s, 11) = "."
    /\ IsOct(Char(s, 12))

\* The groups of a matched address.
BdfGroups(s) ==
    [dom |-> SubSeq(s, 1, 4), bus |-> SubSeq(s, 6, 7),
     dev |-> SubSeq(s, 9, 10), fn |-> Char(s, 12)]

---------------------------------------------------------------------------
(* dmi_key_from_bdf                                                         *)

\* A translation that keeps bus and function only.
dmi_key_bus_fn_only(bdf) ==
    IF ~MatchBdf(bdf) THEN ""
    ELSE LET m == BdfGroups(bdf)
         IN  "0000:" \o HexStr(HexInt(m.bus), 2) \o ":" \o HexStr(0, 2)
                 \o "." \o HexDigitsOf(HexInt(m.fn))

dmi_key_from_bdf(bdf) ==
    IF ~MatchBdf(bdf) THEN ""
    ELSE LET m == BdfGroups(bdf)
         IN  HexStr(HexInt(m.bus), 4) \o ":" \o HexStr(HexInt(m.dev), 2)
                 \o ":" \o HexStr(0, 2) \o "." \o HexDigitsOf(HexInt(m.fn))

---------------------------------------------------------------------------
(* link_status_tag                                                          *)

\* float(s) for s over [0-9.]: FALSE for ValueError, else the value as
\* mant / 10^frac.
DotCount(s) == Cardinality({k \in 1..Len(s) : Char(s, k) = "."})

FloatOk(s) ==
    /\ \A k \in 1..Len(s) : IsDigit(Char(s, k)) \/ Char(s, k) = "."
    /\ DotCount(s) <= 1
    /\ \E k \in 1..Len(s) : IsDigit(Char(s, k))

DotPos(s) == IF DotCount(s) = 0 THEN Len(s) + 1
             ELSE CHOOSE k \in 1..Len(s) : Char(s, k) = "."

FloatMant(s) == DecInt(SubSeq(s, 1, DotPos(s) - 1) \o SubSeq(s, DotPos(s) + 1, Len(s)))

FloatFrac(s) == IF DotCount(s) = 0 THEN 0 ELSE Len(s) - DotPos(s)

RECURSIVE Pow10(_)
Pow10(n) == IF n = 0 THEN 1 ELSE 10 * Pow10(n - 1)

\* float(a) < float(b)
FloatLess(a, b) ==
    FloatMant(a) * Pow10(FloatFrac(b)) < FloatMant(b) * Pow10(FloatFrac(a))

\* int(s) raises ValueError unless s is a run of digits.
IntOk(s) == Len(s) > 0 /\ AllDigits(s)

\* try: if cap_w and sta_w and int(sta_w) < int(cap_w): lane_down = True
lane_down(cap_w, sta_w) ==
    /\ cap_w # ""
    /\ sta_w # ""
    /\ IntOk(sta_w)
    /\ IntOk(cap_w)
    /\ DecInt(sta_w) < DecInt(cap_w)

\* try: if cap_s and sta_s and float(sta_s) < float(cap_s): idle = True
idle(cap_s, sta_s) ==
    /\ cap_s # ""
    /\ sta_s # ""
    /\ FloatOk(sta_s)
    /\ FloatOk(cap_s)
    /\ FloatLess(sta_s, cap_s)

\* Speed regression tested first.
link_status_tag_speed_first(cap_s, cap_w, sta_s, sta_w) ==
    IF idle(cap_s, sta_s) THEN "IDLE"
    ELSE IF lane_down(cap_w, sta_w) THEN "DOWNGRADED"
    ELSE "OK"

\* A missing value read as zero.
link_status_tag_unknown_as_zero(cap_s, cap_w, sta_s, sta_w) ==
    IF cap_w # "" /\ IntOk(cap_w) /\ (IF sta_w = "" THEN 0 ELSE DecInt(sta_w)) < DecInt(cap_w)
    THEN "DOWNGRADED"
    ELSE IF idle(cap_s, sta_s) THEN "IDLE"
    ELSE "OK"

link_status_tag(cap_s, cap_w, sta_s, sta_w) ==
    IF lane_down(cap_w, sta_w) THEN "DOWNGRADED"
    ELSE IF idle(cap_s, sta_s) THEN "IDLE"
    ELSE "OK"

---------------------------------------------------------------------------
(* Location and slot heuristics                                             *)

riser_side(group) ==
    IF group \in {"PCIE_3", "PCIE_4"} THEN "Front"
    ELSE IF group \in {"PCIE_1", "PCIE_2"} THEN "Rear"
    ELSE "ERROR"

\* PCIE_3 entered as Left.
riser_lr_front_both_left(group) ==
    CASE group = "PCIE_1" -> "Right"
      [] group = "PCIE_2" -> "Left"
      [] group = "PCIE_3" -> "Left"
      [] group = "PCIE_4" -> "Left"
      [] OTHER -> "ERROR"

riser_lr(group) ==
    CASE group = "PCIE_1" -> "Right"
      [] group = "PCIE_2" -> "Left"
      [] group = "PCIE_3" -> "Right"
      [] group = "PCIE_4" -> "Left"
      [] OTHER -> "ERROR"

\* The end of the run of digits that starts at position k of s.
RECURSIVE DigitRunEnd(_, _)
DigitRunEnd(s, k) ==
    IF k <= Len(s) /\ IsDigit(Char(s, k)) THEN DigitRunEnd(s, k + 1) ELSE k - 1

\* re.match(r"^(PCIE_\d+)_.*", desig or "")
riser_group_from_desig(desig) ==
    LET e == DigitRunEnd(desig, 6)
    IN  IF /\ Len(desig) >= 7
           /\ SubSeq(desig, 1, 5) = "PCIE_"
           /\ e >= 6
           /\ e < Len(desig)
           /\ Char(desig, e + 1) = "_"
        THEN SubSeq(desig, 1, e)
        ELSE ""

\* Every group with the default orientation.
inner_slot_no_inversion(group, dev_hex) ==
    IF group \in {"PCIE_1", "PCIE_2", "PCIE_3", "PCIE_4"}
    THEN (CASE dev_hex = "00" -> "Top" [] dev_hex = "01" -> "Bottom" [] OTHER -> "ERROR")
    ELSE "ERROR"

inner_slot_from_dev_with_group(group, dev_hex) ==
    IF group \in {"PCIE_3", "PCIE_2"}
    THEN (CASE dev_hex = "00" -> "Bottom" [] dev_hex = "01" -> "Top" [] OTHER -> "ERROR")
    ELSE IF group \in {"PCIE_1", "PCIE_4"}
    THEN (CASE dev_hex = "00" -> "Top" [] dev_hex = "01" -> "Bottom" [] OTHER -> "ERROR")
    ELSE "ERROR"

gpu_label_from_key(key) ==
    CASE key = "PCIE_1_PCIE_1" -> "GPU1"
      [] key = "PCIE_1_PCIE_2" -> "GPU2"
      [] key = "PCIE_2_PCIE_1" -> "GPU5"
      [] key = "PCIE_2_PCIE_2" -> "GPU6"
      [] key = "PCIE_3_PCIE_1" -> "GPU3"
      [] key = "PCIE_3_PCIE_2" -> "GPU4"
      [] key = "PCIE_4_PCIE_1" -> "GPU7"
      [] key = "PCIE_4_PCIE_2" -> "GPU8"
      [] OTHER -> "ERROR"

\* group, side, lr, inner, key and gpulabel of the loop body, from the slot
\* designation and the device field of the last bridge.
ResolveSlot(slot, dev) ==
    LET group == riser_group_from_desig(slot)
        inner == inner_slot_from_dev_with_group(group, dev)
        key   == group \o "_PCIE_" \o (IF inner = "Top" THEN "1" ELSE "2")
    IN  [group |-> group, side |-> riser_side(group), lr |-> riser_lr(group),
         inner |-> inner, key |-> key, gpulabel |-> gpu_label_from_key(key)]

---------------------------------------------------------------------------
(* Whitespace and substring helpers of the parsers.                         *)

IsSpace(c) == c = " " \/ c = "\t"

RECURSIVE LStrip(_)
LStrip(s) == IF Len(s) > 0 /\ IsSpace(Char(s, 1)) THEN LStrip(SubSeq(s, 2, Len(s))) ELSE s

RECURSIVE RStrip(_)
RStrip(s) ==
    IF Len(s) > 0 /\ IsSpace(Char(s, Len(s))) THEN RStrip(SubSeq(s, 1, Len(s) - 1)) ELSE s

\* str.strip()
Strip(s) == RStrip(LStrip(s))

StartsWith(s, p) == Len(s) >= Len(p) /\ SubSeq(s, 1, Len(p)) = p

\* p in s
Contains(s, p) == \E k \in 1..(Len(s) - Len(p) + 1) : SubSeq(s, k, k + Len(p) - 1) = p

UpperAlpha == "ABCDEFGHIJKLMNOPQRSTUVWXYZ"

LowerAlpha == "abcdefghijklmnopqrstuvwxyz"

LowerChar(c) ==
    IF \E k \in 1..26 : Char(UpperAlpha, k) = c
    THEN Char(LowerAlpha, CHOOSE k \in 1..26 : Char(UpperAlpha, k) = c)
    ELSE c

\* str.lower()
RECURSIVE Lower(_)
Lower(s) == IF Len(s) = 0 THEN "" ELSE LowerChar(Char(s, 1)) \o Lower(SubSeq(s, 2, Len(s)))

EmptyMap == [k \in {} |-> ""]

MapPut(m, k, v) == [x \in (DOMAIN m) \cup {k} |-> IF x = k THEN v ELSE m[x]]

---------------------------------------------------------------------------
(* parse_dmi_slots.  The dmidecode output is a sequence of blocks (the     *)
(* pieces between blank lines), a block a non-empty sequence of lines.     *)

\* The text a pattern "^\s*<label>\s*" leaves to its group when it is tried
\* at line k of the block: the rest of the line or, when nothing but
\* whitespace follows the label, the next line (\s* runs over the line
\* break).  hit is FALSE when line k does not start with the label.
AfterLabel(block, k, label) ==
    LET line == LStrip(block[k])
        rest == SubSeq(line, Len(label) + 1, Len(line))
    IN  IF ~StartsWith(line, label) THEN [hit |-> FALSE, rest |-> "", raw |-> ""]
        ELSE IF LStrip(rest) = "" /\ k < Len(block)
        THEN [hit |-> TRUE, rest |-> LStrip(block[k + 1]), raw |-> rest]
        ELSE [hit |-> TRUE, rest |-> LStrip(rest), raw |-> rest]

\* Group 1 of "^\s*<label>\s*(.+)$" tried at line k, stripped; hit is FALSE
\* when the pattern does not match there.  With only whitespace after the
\* label and no next line, (.+) takes the last blank and strips to "".
TextFieldAt(block, k, label) ==
    LET a == AfterLabel(block, k, label)
    IN  IF ~a.hit THEN [hit |-> FALSE, val |-> ""]
        ELSE IF a.rest # "" THEN [hit |-> TRUE, val |-> Strip(a.rest)]
        ELSE IF a.raw # "" THEN [hit |-> TRUE, val |-> ""]
        ELSE [hit |-> FALSE, val |-> ""]

\* re.search(r"^\s*<label>\s*(.+)$", block, re.M): the first line that matches.
TextField(block, label) ==
    LET hits == {k \in 1..Len(block) : TextFieldAt(block, k, label).hit}
    IN  IF hits = {} THEN [hit |-> FALSE, val |-> ""]
        ELSE TextFieldAt(block, CHOOSE k \in hits : \A j \in hits : k <= j, label)

\* [0-9a-fA-F]{4}:[0-9a-fA-F]{2}:[0-9a-fA-F]{2}\.[0-9a-fA-F]
MatchBusAddress(s) ==
    /\ Len(s) = 12
    /\ AllHex(SubSeq(s, 1, 4))
    /\ Char(s, 5) = ":"
    /\ AllHex(SubSeq(s, 6, 7))
    /\ Char(s, 8) = ":"
    /\ AllHex(SubSeq(s, 9, 10))
    /\ Char(s, 11) = "."
    /\ IsHex(Char(s, 12))

\* re.search(r"^\s*Bus Address:\s*(<address>)$", block, re.M)
BusAddressField(block) ==
    LET hits == {k \in 1..Len(block) :
                    /\ AfterLabel(block, k, "Bus Address:").hit
                    /\ MatchBusAddress(AfterLabel(block, k, "Bus Address:").rest)}
    IN  IF hits = {} THEN [hit |-> FALSE, val |-> ""]
        ELSE [hit |-> TRUE,
              val |-> AfterLabel(block, CHOOSE k \in hits : \A j \in hits : k <= j,
                                 "Bus Address:").rest]

\* One iteration of the loop over blocks; st holds DMI_DESIG, DMI_TYPE,
\* current_designation and current_type.
DmiBlockStep(st, block) ==
    LET mD == TextField(block, "Designation:")
        mT == TextField(block, "Type:")
        mB == BusAddressField(block)
        cd == IF mD.hit THEN mD.val ELSE st.current_designation
        ct == IF mT.hit THEN mT.val ELSE st.current_type
    IN  IF mB.hit /\ cd # ""
        THEN [desig |-> MapPut(st.desig, mB.val, cd),
              type  |-> MapPut(st.type, mB.val, IF ct # "" THEN ct ELSE "Unknown"),
              current_designation |-> cd, current_type |-> ct]
        ELSE [desig |-> st.desig, type |-> st.type,
              current_designation |-> cd, current_type |-> ct]

RECURSIVE DmiFold(_, _)
DmiFold(st, blocks) ==
    IF Len(blocks) = 0 THEN st
    ELSE DmiFold(DmiBlockStep(st, Head(blocks)), Tail(blocks))

\* present: shutil.which("dmidecode") is not None; out: the blocks of
\* try_run(["sudo", "dmidecode", "-t", "9"]), none when the command failed.
parse_dmi_slots(present, out) ==
    IF ~present THEN [desig |-> EmptyMap, type |-> EmptyMap]
    ELSE LET st == DmiFold([desig |-> EmptyMap, type |-> EmptyMap,
                            current_designation |-> "", current_type |-> ""], out)
         IN  [desig |-> st.desig, type |-> st.type]

---------------------------------------------------------------------------
(* discover_gpu_bdfs.  The lspci listing is a set of lines: the function   *)
(* returns sorted(set(...)), so neither the order of the lines nor their   *)
(* repetition reaches the result.                                          *)

\* The "BB:DD.F" the loop body appends for a line, "" for a line it skips.
LineBdf(line) ==
    IF ~Contains(Lower(line), "[10de:") THEN ""
    ELSE IF ~(Len(line) >= 13 /\ MatchBdf(SubSeq(line, 1, 12)) /\ IsSpace(Char(line, 13)))
    THEN ""
    ELSE LET rest == SubSeq(line, 14, Len(line))
         IN  IF \/ Contains(rest, "[0300]")
                \/ Contains(rest, "[0302]")
                \/ Contains(rest, "VGA compatible controller")
                \/ Contains(rest, "3D controller")
             THEN SubSeq(line, 6, 12)
             ELSE ""

\* keyfn(s) of two addresses compared as tuples.
keyfn(s) == <<HexInt(SubSeq(s, 1, 2)), HexInt(SubSeq(s, 4, 5)), DecInt(SubSeq(s, 7, 7))>>

KeyLeq(a, b) ==
    LET x == keyfn(a)
        y == keyfn(b)
    IN  \/ x[1] < y[1]
        \/ x[1] = y[1] /\ x[2] < y[2]
        \/ x[1] = y[1] /\ x[2] = y[2] /\ x[3] <= y[3]

\* sorted(S, key=keyfn)
RECURSIVE SortedByKey(_)
SortedByKey(S) ==
    IF S = {} THEN <<>>
    ELSE LET m == CHOOSE a \in S : \A b \in S : KeyLeq(a, b)
         IN  <<m>> \o SortedByKey(S \ {m})

\* present: shutil.which("lspci") is not None; out1, out2: the lines of
\* try_run(["lspci","-Dnns","10de:"]) and try_run(["lspci","-Dnn"]).
\* skip is the pytest.skip message, "" when the function returns.
discover_gpu_bdfs(present, out1, out2) ==
    LET txt == IF out1 # {} THEN out1 ELSE out2
    IN  IF ~present
        THEN [skip |-> "pciutils not installed", scan |-> "missing", bdfs |-> <<>>]
        ELSE IF txt = {}
        THEN [skip |-> "lspci returned no output", scan |-> "empty", bdfs |-> <<>>]
        ELSE [skip |-> "", scan |-> "listed",
              bdfs |-> SortedByKey({LineBdf(l) : l \in txt} \ {""})]

---------------------------------------------------------------------------
(* The host: what the external commands and sysfs can answer.              *)

MaxLines == 2

LineSamples ==
    {"0000:3d:00.0 3D controller [0302]: NVIDIA [10de:20b0] (rev a1)",
     "0000:1a:00.0 VGA compatible controller [0300]: NVIDIA [10de:1eb8]",
     "0000:b1:00.0 3D controller: NVIDIA [10DE:20b0]",
     "0000:3d:00.1 Audio device [0403]: NVIDIA [10de:10f0]",
     "0000:03:00.0 Ethernet controller [0200]: Intel [8086:1521]",
     "3d:00.0 3D controller [0302]: NVIDIA [10de:20b0]"}

\* An lspci listing: at most MaxLines lines.
LspciOutputs == {S \in SUBSET LineSamples : Cardinality(S) <= MaxLines}

\* The ancestors sysfs shows above an endpoint, root port first.
AncestorSamples ==
    {<<>>,
     <<"0000:3a:00.0">>,
     <<"0000:00:01.1", "0000:01:00.0">>,
     <<"0000:00:03.1", "0000:04:00.0", "0000:05:01.0">>}

\* re.findall(r"0000:[0-9a-fA-F]{2}:[0-9a-fA-F]{2}\.[0-7]", realpath):
\* the ancestors in the resolved path, then the device itself.
get_chain_for_device(dev_nodom, ancestors) == ancestors \o <<"0000:" \o dev_nodom>>

\* (cap_speed, cap_width, sta_speed, sta_width) as get_link_fields returns
\* them: a speed is "" or matches [0-9.]+, a width is "" or matches \d+.
LinkSamples ==
    {<<"16.0", "16", "16.0", "16">>,
     <<"16.0", "16", "8.0", "16">>,
     <<"16.0", "16", "8.0", "8">>,
     <<"", "16", "", "8">>,
     <<"16.0", "16", "2.5", "">>}

\* What get_gpu_short_name returns for the device.
NameSamples == {"NVIDIA [10de:20b0]"}

\* dmidecode -t 9 outputs, as blocks of lines.
DmiOutputs ==
    {<<>>,
     << <<"Handle 0x0030, DMI type 9, 17 bytes", "System Slot Information",
          "\tDesignation: PCIE_3_SLOT2", "\tType: x16 PCI Express 4 x16",
          "\tBus Address: 0000:01:00.1">>,
        <<"Handle 0x0031, DMI type 9, 17 bytes", "System Slot Information",
          "\tDesignation: PCIE_1_SLOT1", "\tType: x16 PCI Express 4 x16",
          "\tBus Address: 0000:03:00.1">> >>,
     << <<"\tDesignation: PCIE_2_SLOT1", "\tBus Address: 0000:01:00.1">>,
        <<"\tDesignation: M2_SLOT", "\tType: x4 M.2 Socket 3">>,
        <<"\tBus Address: 0000:03:00.1">> >>,
     << <<"\tBus Address: 0000:01:00.1">>,
        <<"\tDesignation: PCIE_4_SLOT2", "\tType: x16 PCI Express 4 x16",
          "\tBus Address: 0000:03:00.1 ">>,
        <<"\tBus Address: 0000:03:00.1">> >>}

---------------------------------------------------------------------------
(* test_gpu_pcie_topology_and_links                                         *)

OrUnknown(s) == IF s = "" THEN "?" ELSE s

\* A missing slot record reported as a link fault.
BuildRowMissIsFault(g, chain, link, name, desig) ==
    LET dmikey == dmi_key_from_bdf(chain[1])
        slot   == IF dmikey \in DOMAIN desig THEN desig[dmikey] ELSE "-"
        r      == ResolveSlot(slot, BdfGroups(chain[Len(chain) - 1]).dev)
    IN  [bdf |-> g, name |-> name,
         slot_name |-> r.gpulabel \o " (" \o r.key \o ")",
         location |-> r.side \o "-" \o r.lr \o "-" \o r.inner,
         status |-> IF slot = "-" THEN "DOWNGRADED"
                    ELSE link_status_tag(link[1], link[2], link[3], link[4]),
         cap_s |-> OrUnknown(link[1]), sta_s |-> OrUnknown(link[3]),
         cap_w |-> OrUnknown(link[2]), sta_w |-> OrUnknown(link[4])]

\* The loop body from root_bdf to rows.append, for a chain of two or more.
BuildRow(g, chain, link, name, desig) ==
    LET root_bdf    == chain[1]
        dmikey      == dmi_key_from_bdf(root_bdf)
        slot        == IF dmikey \in DOMAIN desig THEN desig[dmikey] ELSE "-"
        last_bridge == chain[Len(chain) - 1]
        dev         == BdfGroups(last_bridge).dev
        r           == ResolveSlot(slot, dev)
        status      == link_status_tag(link[1], link[2], link[3], link[4])
    IN  [bdf |-> g, name |-> name,
         slot_name |-> r.gpulabel \o " (" \o r.key \o ")",
         location |-> r.side \o "-" \o r.lr \o "-" \o r.inner,
         status |-> status,
         cap_s |-> OrUnknown(link[1]), sta_s |-> OrUnknown(link[3]),
         cap_w |-> OrUnknown(link[2]), sta_w |-> OrUnknown(link[4])]

Init ==
    /\ pc = "discover"
    /\ scan = "unrun"
    /\ gpus = <<>>
    /\ whichDmidecode = "unasked"
    /\ dmi_desig = EmptyMap
    /\ dmi_type = EmptyMap
    /\ i = 1
    /\ hw = EmptyMap
    /\ rows = <<>>
    /\ downgraded = <<>>
    /\ noBridges = <<>>
    /\ outcome = "running"
    /\ probe = [fn |-> "none", args |-> <<>>, oracle |-> <<>>, out |-> <<>>]

\* An empty GPU list that does not skip.
DiscoverNoSkip ==
    /\ pc = "discover"
    /\ \E present \in BOOLEAN, out1 \in LspciOutputs, out2 \in LspciOutputs :
          LET d == discover_gpu_bdfs(present, out1, out2)
          IN  /\ scan' = d.scan
              /\ gpus' = d.bdfs
              /\ IF d.skip # ""
                 THEN pc' = "skipped" /\ outcome' = "skipped"
                 ELSE pc' = "parse_dmi" /\ outcome' = outcome
    /\ UNCHANGED <<whichDmidecode, dmi_desig, dmi_type, i, hw, rows, downgraded,
                   noBridges, probe>>

\* gpus = discover_gpu_bdfs(); if not gpus: pytest.skip(...)
Discover ==
    /\ pc = "discover"
    /\ \E present \in BOOLEAN, out1 \in LspciOutputs, out2 \in LspciOutputs :
          LET d == discover_gpu_bdfs(present, out1, out2)
          IN  /\ scan' = d.scan
              /\ gpus' = d.bdfs
              /\ IF d.skip # "" \/ d.bdfs = <<>>
                 THEN pc' = "skipped" /\ outcome' = "skipped"
                 ELSE pc' = "parse_dmi" /\ outcome' = outcome
    /\ UNCHANGED <<whichDmidecode, dmi_desig, dmi_type, i, hw, rows, downgraded,
                   noBridges, probe>>

\* A missing dmidecode that skips the test, as a missing lspci does.
ParseDmiSkipMissing ==
    /\ pc = "parse_dmi"
    /\ \E present \in BOOLEAN, out \in DmiOutputs :
          LET c == parse_dmi_slots(present, out)
          IN  /\ whichDmidecode' = (IF present THEN "found" ELSE "missing")
              /\ dmi_desig' = c.desig
              /\ dmi_type' = c.type
              /\ IF present
                 THEN pc' = "loop" /\ outcome' = outcome
                 ELSE pc' = "skipped" /\ outcome' = "skipped"
    /\ UNCHANGED <<scan, gpus, i, hw, rows, downgraded, noBridges, probe>>

\* dmi_desig, dmi_type = parse_dmi_slots()
ParseDmi ==
    /\ pc = "parse_dmi"
    /\ \E present \in BOOLEAN, out \in DmiOutputs :
          LET c == parse_dmi_slots(present, out)
          IN  /\ whichDmidecode' = (IF present THEN "found" ELSE "missing")
              /\ dmi_desig' = c.desig
              /\ dmi_type' = c.type
    /\ pc' = "loop"
    /\ UNCHANGED <<scan, gpus, i, hw, rows, downgraded, noBridges, outcome,
                   probe>>

\* A short chain that ends the loop (break for continue).
ProcessGpuBreak ==
    /\ pc = "loop"
    /\ i <= Len(gpus)
    /\ \E anc \in AncestorSamples, link \in LinkSamples, name \in NameSamples :
          LET g     == gpus[i]
              chain == get_chain_for_device(g, anc)
          IN  IF Len(chain) < 2
              THEN /\ noBridges' = Append(noBridges, g)
                   /\ hw' = MapPut(hw, g, [chain |-> chain, link |-> <<>>])
                   /\ i' = Len(gpus) + 1
                   /\ UNCHANGED <<rows, downgraded>>
              ELSE LET row == BuildRow(g, chain, link, name, dmi_desig)
                   IN  /\ rows' = Append(rows, row)
                       /\ downgraded' = (IF row.status = "DOWNGRADED"
                                         THEN Append(downgraded, g) ELSE downgraded)
                       /\ hw' = MapPut(hw, g, [chain |-> chain, link |-> link])
                       /\ i' = i + 1
                       /\ UNCHANGED noBridges
    /\ UNCHANGED <<pc, scan, gpus, whichDmidecode, dmi_desig, dmi_type,
                   outcome, probe>>

\* One iteration of "for g in gpus".
ProcessGpu ==
    /\ pc = "loop"
    /\ i <= Len(gpus)
    /\ \E anc \in AncestorSamples, link \in LinkSamples, name \in NameSamples :
          LET g     == gpus[i]
              chain == get_chain_for_device(g, anc)
          IN  IF Len(chain) < 2
              THEN /\ noBridges' = Append(noBridges, g)
                   /\ hw' = MapPut(hw, g, [chain |-> chain, link |-> <<>>])
                   /\ UNCHANGED <<rows, downgraded>>
              ELSE LET row == BuildRow(g, chain, link, name, dmi_desig)
                   IN  /\ rows' = Append(rows, row)
                       /\ downgraded' = (IF row.status = "DOWNGRADED"
                                         THEN Append(downgraded, g) ELSE downgraded)
                       /\ hw' = MapPut(hw, g, [chain |-> chain, link |-> link])
                       /\ UNCHANGED noBridges
    /\ i' = i + 1
    /\ UNCHANGED <<pc, scan, gpus, whichDmidecode, dmi_desig, dmi_type,
                   outcome, probe>>

\* A run that fails on any status other than OK.
FinishFailNotOk ==
    /\ pc = "loop"
    /\ i > Len(gpus)
    /\ pc' = "done"
    /\ outcome' = (IF \E k \in 1..Len(rows) : rows[k].status # "OK"
                   THEN "failed" ELSE "passed")
    /\ UNCHANGED <<scan, gpus, whichDmidecode, dmi_desig, dmi_type, i, hw,
                   rows, downgraded, noBridges, probe>>

\* After the loop: assert not downgraded
Finish ==
    /\ pc = "loop"
    /\ i > Len(gpus)
    /\ pc' = "done"
    /\ outcome' = (IF downgraded = <<>> THEN "passed" ELSE "failed")
    /\ UNCHANGED <<scan, gpus, whichDmidecode, dmi_desig, dmi_type, i, hw,
                   rows, downgraded, noBridges, probe>>

Next == Discover \/ ParseDmi \/ ProcessGpu \/ Finish

Spec == Init /\ [][Next]_vars

---------------------------------------------------------------------------
(* The loop body applied to the GPUs in any order (map-style fan-out),     *)
(* the reports joined in discovery order.                                  *)

Pos(g) == CHOOSE k \in 1..Len(gpus) : gpus[k] = g

\* A list of GPUs, kept in discovery order, with g added.
JoinGpu(seq, g) ==
    SelectSeq(seq, LAMBDA e : Pos(e) < Pos(g)) \o <<g>>
        \o SelectSeq(seq, LAMBDA e : Pos(e) > Pos(g))

\* The reports, kept in discovery order, with the report of one more GPU.
JoinRow(seq, row) ==
    SelectSeq(seq, LAMBDA e : Pos(e.bdf) < Pos(row.bdf)) \o <<row>>
        \o SelectSeq(seq, LAMBDA e : Pos(e.bdf) > Pos(row.bdf))

\* A slot and location left over from the report built before.
ProcessAnyGpuCarry ==
    /\ pc = "loop"
    /\ \E g \in {gpus[k] : k \in 1..Len(gpus)} \ DOMAIN hw :
       \E anc \in AncestorSamples, link \in LinkSamples, name \in NameSamples :
          LET chain == get_chain_for_device(g, anc)
          IN  IF Len(chain) < 2
              THEN /\ noBridges' = JoinGpu(noBridges, g)
                   /\ hw' = MapPut(hw, g, [chain |-> chain, link |-> <<>>])
                   /\ UNCHANGED <<rows, downgraded>>
              ELSE LET built == BuildRow(g, chain, link, name, dmi_desig)
                       row == IF rows # <<>> /\ built.location = "ERROR-ERROR-ERROR"
                              THEN [built EXCEPT !.slot_name = rows[Len(rows)].slot_name,
                                                 !.location = rows[Len(rows)].location]
                              ELSE built
                   IN  /\ rows' = JoinRow(rows, row)
                       /\ downgraded' = (IF row.status = "DOWNGRADED"
                                         THEN JoinGpu(downgraded, g)
                                         ELSE downgraded)
                       /\ hw' = MapPut(hw, g, [chain |-> chain, link |-> link])
                       /\ UNCHANGED noBridges
    /\ i' = i + 1
    /\ UNCHANGED <<pc, scan, gpus, whichDmidecode, dmi_desig, dmi_type,
                   outcome, probe>>

\* The loop body for any GPU not yet visited.
ProcessAnyGpu ==
    /\ pc = "loop"
    /\ \E g \in {gpus[k] : k \in 1..Len(gpus)} \ DOMAIN hw :
       \E anc \in AncestorSamples, link \in LinkSamples, name \in NameSamples :
          LET chain == get_chain_for_device(g, anc)
          IN  IF Len(chain) < 2
              THEN /\ noBridges' = JoinGpu(noBridges, g)
                   /\ hw' = MapPut(hw, g, [chain |-> chain, link |-> <<>>])
                   /\ UNCHANGED <<rows, downgraded>>
              ELSE LET row == BuildRow(g, chain, link, name, dmi_desig)
                   IN  /\ rows' = JoinRow(rows, row)
                       /\ downgraded' = (IF row.status = "DOWNGRADED"
                                         THEN JoinGpu(downgraded, g)
                                         ELSE downgraded)
                       /\ hw' = MapPut(hw, g, [chain |-> chain, link |-> link])
                       /\ UNCHANGED noBridges
    /\ i' = i + 1
    /\ UNCHANGED <<pc, scan, gpus, whichDmidecode, dmi_desig, dmi_type,
                   outcome, probe>>

NextAnyOrder == Discover \/ ParseDmi \/ ProcessAnyGpu \/ Finish

SpecAnyOrder == Init /\ [][NextAnyOrder]_vars

---------------------------------------------------------------------------
(* Single applications of the pure functions, on inputs given with the    *)
(* numbers they were written from.                                         *)

\* A speed text and its value in tenths of GT/s (-1: not a number).
SpeedSamples ==
    {[txt |-> "", tenths |-> -1], [txt |-> ".", tenths |-> -1],
     [txt |-> "1.6.0", tenths |-> -1], [txt |-> "16.0", tenths |-> 160],
     [txt |-> "16.", tenths |-> 160], [txt |-> "8.0", tenths |-> 80],
     [txt |-> "8", tenths |-> 80], [txt |-> "2.5", tenths |-> 25]}

\* A width text and its lane count (-1: missing).
WidthSamples ==
    {[txt |-> "", lanes |-> -1], [txt |-> "16", lanes |-> 16],
     [txt |-> "8", lanes |-> 8], [txt |-> "08", lanes |-> 8],
     [txt |-> "1", lanes |-> 1], [txt |-> "0", lanes |-> 0]}

UpperChar(c) ==
    IF \E k \in 1..26 : Char(LowerAlpha, k) = c
    THEN Char(UpperAlpha, CHOOSE k \in 1..26 : Char(LowerAlpha, k) = c)
    ELSE c

RECURSIVE Upper(_)
Upper(s) == IF Len(s) = 0 THEN "" ELSE UpperChar(Char(s, 1)) \o Upper(SubSeq(s, 2, Len(s)))

\* The text "DDDD:BB:DD.F" of an address, in either case of hex digits.
AddrText(dom, bus, dev, fn, upper) ==
    LET t == HexStr(dom, 4) \o ":" \o HexStr(bus, 2) \o ":" \o HexStr(dev, 2)
                 \o "." \o HexDigitsOf(fn)
    IN  IF upper THEN Upper(t) ELSE t

\* Address texts with the numbers of their fields; wf: the text is an
\* address at all.
AddrSamples ==
    {[txt |-> AddrText(d, b, v, f, u), wf |-> TRUE, dom |-> d, bus |-> b, dev |-> v, fn |-> f] :
        d \in {0, 1}, b \in {0, 58}, v \in {0, 1, 31}, f \in {0, 7}, u \in BOOLEAN}
    \cup {[txt |-> t, wf |-> FALSE, dom |-> 0, bus |-> 0, dev |-> 0, fn |-> 0] :
             t \in {"", "3a:00.0", "0000:3a:00.8", "0000:3g:00.0"}}

SlotSamples ==
    {"-", "PCIE_1_SLOT1", "PCIE_2_SLOT1", "PCIE_3_SLOT2", "PCIE_4_SLOT2",
     "PCIE_5_SLOT1", "PCIE_12_A", "PCIE_3", "PCIE__X", "M2_SLOT"}

DevSamples == {"00", "01", "02", "1f", "0A"}

ApplyLinkStatusTag ==
    /\ probe.fn = "none"
    /\ \E cs \in SpeedSamples, cw \in WidthSamples, ss \in SpeedSamples, sw \in WidthSamples :
          probe' = [fn |-> "link_status_tag",
                    args |-> <<cs.txt, cw.txt, ss.txt, sw.txt>>,
                    oracle |-> <<cs.tenths, cw.lanes, ss.tenths, sw.lanes>>,
                    out |-> <<link_status_tag(cs.txt, cw.txt, ss.txt, sw.txt)>>]
    /\ UNCHANGED runVars

ApplyDmiKey ==
    /\ probe.fn = "none"
    /\ \E a \in AddrSamples, b \in AddrSamples :
          probe' = [fn |-> "dmi_key_from_bdf",
                    args |-> <<a.txt, b.txt>>,
                    oracle |-> <<a, b>>,
                    out |-> <<dmi_key_from_bdf(a.txt), dmi_key_from_bdf(b.txt)>>]
    /\ UNCHANGED runVars

ApplyResolveSlot ==
    /\ probe.fn = "none"
    /\ \E slot \in SlotSamples, dev \in DevSamples :
          probe' = [fn |-> "ResolveSlot",
                    args |-> <<slot, dev>>,
                    oracle |-> <<>>,
                    out |-> <<ResolveSlot(slot, dev)>>]
    /\ UNCHANGED runVars

MaxBlocks == 3

\* Blocks of a dmidecode -t 9 output, each with the fields it defines
\* ("": the block does not define the field, or defines it blank).
BlockSamples ==
    {[lines |-> <<"Handle 0x0030, DMI type 9, 17 bytes", "System Slot Information">>,
      desig |-> "", type |-> "", addr |-> ""],
     [lines |-> <<"\tDesignation: PCIE_3_SLOT2", "\tType: x16 PCI Express 4 x16",
                  "\tBus Address: 0000:01:00.1">>,
      desig |-> "PCIE_3_SLOT2", type |-> "x16 PCI Express 4 x16", addr |-> "0000:01:00.1"],
     [lines |-> <<"\tDesignation: PCIE_1_SLOT1", "\tType: x8 PCI Express 4 x8">>,
      desig |-> "PCIE_1_SLOT1", type |-> "x8 PCI Express 4 x8", addr |-> ""],
     [lines |-> <<"\tBus Address: 0000:03:00.1">>,
      desig |-> "", type |-> "", addr |-> "0000:03:00.1"],
     [lines |-> <<"\tBus Address: 0000:01:00.1">>,
      desig |-> "", type |-> "", addr |-> "0000:01:00.1"],
     [lines |-> <<"\tBus Address: 0000:03:00.1", "\tDesignation: PCIE_2_SLOT1">>,
      desig |-> "PCIE_2_SLOT1", type |-> "", addr |-> "0000:03:00.1"],
     [lines |-> <<"\tDesignation: ", "\tType: x16 PCI Express 4 x16",
                  "\tBus Address: 0000:01:00.1">>,
      desig |-> "", type |-> "x16 PCI Express 4 x16", addr |-> "0000:01:00.1"]}

\* The tables of at most MaxBlocks blocks.
BlockTables == UNION {[1..n -> BlockSamples] : n \in 0..MaxBlocks}

ApplyParseDmiSlots ==
    /\ probe.fn = "none"
    /\ \E table \in BlockTables :
          probe' = [fn |-> "parse_dmi_slots",
                    args |-> [k \in 1..Len(table) |-> table[k].lines],
                    oracle |-> table,
                    out |-> <<parse_dmi_slots(TRUE, [k \in 1..Len(table) |-> table[k].lines])>>]
    /\ UNCHANGED runVars

\* Root-port designations with the number of their riser group.
GroupSlotSamples ==
    {[txt |-> "PCIE_1_SLOT1", group |-> 1], [txt |-> "PCIE_2_SLOT1", group |-> 2],
     [txt |-> "PCIE_3_SLOT2", group |-> 3], [txt |-> "PCIE_4_SLOT2", group |-> 4],
     [txt |-> "PCIE_3_SLOT9", group |-> 3], [txt |-> "PCIE_5_SLOT1", group |-> 5]}

\* Device numbers of the last bridge before the endpoint.
BridgeDevSamples == {0, 1, 2}

\* The row of a GPU behind the root port 0000:00:01.1 with designation
\* slot.txt and a last bridge with device number dev.
RowBehind(slot, dev) ==
    LET root == "0000:00:01.1"
    IN  BuildRow("0000:02:00.0",
                 <<root, AddrText(0, 1, dev, 0, FALSE), "0000:02:00.0">>,
                 <<"16.0", "16", "16.0", "16">>,
                 "NVIDIA [10de:20b0]",
                 MapPut(EmptyMap, dmi_key_from_bdf(root), slot.txt))

\* The rows of two GPUs, each built on its own.
ApplyBuildRowPair ==
    /\ probe.fn = "none"
    /\ \E s1 \in GroupSlotSamples, d1 \in BridgeDevSamples,
          s2 \in GroupSlotSamples, d2 \in BridgeDevSamples :
          probe' = [fn |-> "BuildRowPair",
                    args |-> <<s1.txt, d1, s2.txt, d2>>,
                    oracle |-> <<s1.group, d1, s2.group, d2>>,
                    out |-> <<RowBehind(s1, d1), RowBehind(s2, d2)>>]
    /\ UNCHANGED runVars

NextFn ==
    \/ ApplyLinkStatusTag
    \/ ApplyDmiKey
    \/ ApplyResolveSlot
    \/ ApplyParseDmiSlots
    \/ ApplyBuildRowPair

SpecFn == Init /\ [][NextFn]_vars

---------------------------------------------------------------------------
(* Properties                                                               *)

\* The GPU of report k, and what the host answered for it.
RowGpu(k) == rows[k].bdf

RowHw(k) == hw[rows[k].bdf]

Chained(g) == Len(hw[g].chain) >= 2

\* The link fields show fewer negotiated lanes than capable lanes.
LaneRegression(link) ==
    /\ Len(link) = 4
    /\ link[2] # ""
    /\ link[4] # ""
    /\ DecInt(link[4]) < DecInt(link[2])

\* The firmware key of the GPU's root port has no record in the catalog.
Unmapped(g) == dmi_key_from_bdf(hw[g].chain[1]) \notin DOMAIN dmi_desig

\* C1: once the run is over its outcome is passed or failed, and it is
\* failed exactly when some report has status DOWNGRADED; IDLE and OK
\* reports never fail it.  Before the end there is no pass or fail.
C1_FailIffDowngraded ==
    /\ pc = "done" =>
          /\ outcome \in {"passed", "failed"}
          /\ outcome = "failed" <=> \E k \in 1..Len(rows) : rows[k].status = "DOWNGRADED"
    /\ pc # "done" => outcome \in {"running", "skipped"}

\* A failed run with a DOWNGRADED and an IDLE report.
C1_Witness ==
    /\ pc = "done"
    /\ outcome = "failed"
    /\ \E j, k \in 1..Len(rows) :
          rows[j].status = "DOWNGRADED" /\ rows[k].status = "IDLE"

\* C2: link_status_tag returns DOWNGRADED exactly when both widths are known
\* and negotiated < capable; otherwise IDLE exactly when both speeds are
\* known and negotiated < capable; otherwise OK.
C2_Classify ==
    probe.fn = "link_status_tag" =>
        LET cs == probe.oracle[1]
            cw == probe.oracle[2]
            ss == probe.oracle[3]
            sw == probe.oracle[4]
            widthDown == cw >= 0 /\ sw >= 0 /\ sw < cw
            speedDown == cs >= 0 /\ ss >= 0 /\ ss < cs
        IN  probe.out[1] = (IF widthDown THEN "DOWNGRADED"
                            ELSE IF speedDown THEN "IDLE" ELSE "OK")

\* Capability 16.0 GT/s x16 against status 8.0 GT/s x8: width wins.
C2_Witness ==
    /\ probe.fn = "link_status_tag"
    /\ probe.oracle = <<160, 16, 80, 8>>
    /\ probe.out = <<"DOWNGRADED">>

\* C3: the reports are, in discovery order, exactly the visited GPUs whose
\* chain has two or more addresses; a GPU with a shorter chain is printed as
\* having no bridges, gets no report, is never among the downgraded, and the
\* loop goes on to the last GPU.
C3_ReportsAreChainedGpus ==
    pc \in {"loop", "done"} =>
        LET visited == SubSeq(gpus, 1, i - 1)
        IN  /\ DOMAIN hw = {visited[k] : k \in 1..Len(visited)}
            /\ [k \in 1..Len(rows) |-> rows[k].bdf] = SelectSeq(visited, Chained)
            /\ noBridges = SelectSeq(visited, LAMBDA g : ~Chained(g))
            /\ \A k \in 1..Len(downgraded) : Chained(downgraded[k])
            /\ pc = "done" => i = Len(gpus) + 1

\* A finished run whose first GPU had no bridge and whose second was reported.
C3_Witness ==
    /\ pc = "done"
    /\ Len(gpus) >= 2
    /\ noBridges = <<gpus[1]>>
    /\ Len(rows) = 1
    /\ rows[1].bdf = gpus[2]

\* C4: a chained GPU whose root port has no catalog record is reported with
\* slot label and location ERROR, with the status its link fields give any
\* GPU, and is DOWNGRADED only on a lane regression of its own; a failed run
\* always has a report with a lane regression.
C4_UnmappedStillJudged ==
    /\ \A k \in 1..Len(rows) :
          Unmapped(RowGpu(k)) =>
              /\ rows[k].slot_name = "ERROR (_PCIE_2)"
              /\ rows[k].location = "ERROR-ERROR-ERROR"
              /\ rows[k].status = "DOWNGRADED" <=> LaneRegression(RowHw(k).link)
              /\ \A j \in 1..Len(rows) :
                    RowHw(j).link = RowHw(k).link => rows[j].status = rows[k].status
    /\ outcome = "failed" => \E k \in 1..Len(rows) : LaneRegression(RowHw(k).link)

\* A passed run with a mapped and an unmapped GPU of the same link fields.
C4_Witness ==
    /\ pc = "done"
    /\ outcome = "passed"
    /\ \E j, k \in 1..Len(rows) :
          /\ ~Unmapped(RowGpu(j))
          /\ Unmapped(RowGpu(k))
          /\ RowHw(j).link = RowHw(k).link
          /\ rows[k].status = "IDLE"

\* C5 as claimed: a failed run has a DOWNGRADED report whose four link
\* values are all known.
C5_FailNeedsAllFourKnown ==
    outcome = "failed" =>
        \E k \in 1..Len(rows) :
            /\ rows[k].status = "DOWNGRADED"
            /\ rows[k].cap_s # "?"
            /\ rows[k].sta_s # "?"
            /\ rows[k].cap_w # "?"
            /\ rows[k].sta_w # "?"

\* C5: a failed run has a DOWNGRADED report, and a report is DOWNGRADED only
\* with both widths known and fewer negotiated than capable lanes; the
\* speeds may be unknown.
C5_FailNeedsBothWidthsKnown ==
    /\ outcome = "failed" => \E k \in 1..Len(rows) : rows[k].status = "DOWNGRADED"
    /\ \A k \in 1..Len(rows) :
          rows[k].status = "DOWNGRADED" =>
              /\ rows[k].cap_w # "?"
              /\ rows[k].sta_w # "?"
              /\ DecInt(rows[k].sta_w) < DecInt(rows[k].cap_w)

\* A run failed by a GPU whose speeds are unknown.
C5_Witness ==
    /\ pc = "done"
    /\ outcome = "failed"
    /\ Len(rows) = 1
    /\ rows[1].cap_s = "?"
    /\ rows[1].sta_s = "?"

\* C6 as claimed: with dmidecode missing there is no report and no pass or
\* fail.
C6_MissingToolSkips ==
    whichDmidecode = "missing" => rows = <<>> /\ outcome \notin {"passed", "failed"}

\* C6: with dmidecode missing the catalog is empty and the run goes on as
\* with an empty table: it is never skipped, every chained GPU gets a report
\* with the ERROR label, and the run ends passed or failed.
C6_MissingToolEmptyCatalog ==
    whichDmidecode = "missing" =>
        /\ dmi_desig = EmptyMap
        /\ dmi_type = EmptyMap
        /\ pc \in {"loop", "done"}
        /\ outcome # "skipped"
        /\ \A g \in DOMAIN hw : Chained(g) => \E k \in 1..Len(rows) : rows[k].bdf = g
        /\ \A k \in 1..Len(rows) : rows[k].location = "ERROR-ERROR-ERROR"
        /\ pc = "done" => outcome \in {"passed", "failed"}

\* A failed run without dmidecode.
C6_Witness ==
    /\ whichDmidecode = "missing"
    /\ pc = "done"
    /\ outcome = "failed"
    /\ rows # <<>>

\* C7: a missing lspci, an empty listing or an empty filtered set ends the
\* run as skipped, with dmidecode never asked for, the catalog never built
\* and no report; nothing else skips the run.
C7_NothingToCheckSkips ==
    /\ (scan \in {"missing", "empty"} \/ (scan = "listed" /\ gpus = <<>>)) =>
          /\ pc = "skipped"
          /\ outcome = "skipped"
          /\ whichDmidecode = "unasked"
          /\ dmi_desig = EmptyMap
          /\ rows = <<>>
          /\ noBridges = <<>>
    /\ (pc = "skipped" \/ outcome = "skipped") =>
          scan \in {"missing", "empty"} \/ (scan = "listed" /\ gpus = <<>>)

\* A listing with lines, none of them a GPU of the vendor.
C7_Witness == pc = "skipped" /\ scan = "listed" /\ gpus = <<>>

\* C8 as claimed: in group PCIE_3 the inner position Top has label GPU4.
C8_Pcie3TopIsGpu4 ==
    (probe.fn = "ResolveSlot" /\ probe.out[1].group = "PCIE_3") =>
        /\ probe.out[1].side = "Front"
        /\ probe.out[1].lr = "Right"
        /\ probe.args[2] = "00" => probe.out[1].inner = "Bottom"
        /\ probe.args[2] = "01" => probe.out[1].inner = "Top"
        /\ probe.out[1].inner = "Top" => probe.out[1].gpulabel = "GPU4"

\* C8: group PCIE_3 is Front and Right, bridge device 00 is Bottom and 01 is
\* Top; Top has label GPU3 and Bottom GPU4.
C8_Pcie3TopIsGpu3 ==
    (probe.fn = "ResolveSlot" /\ probe.out[1].group = "PCIE_3") =>
        /\ probe.out[1].side = "Front"
        /\ probe.out[1].lr = "Right"
        /\ probe.args[2] = "00" => probe.out[1].inner = "Bottom"
        /\ probe.args[2] = "01" => probe.out[1].inner = "Top"
        /\ probe.out[1].inner = "Top" => probe.out[1].gpulabel = "GPU3"
        /\ probe.out[1].inner = "Bottom" => probe.out[1].gpulabel = "GPU4"

\* PCIE_3_SLOT2 behind bridge device 01.
C8_Witness ==
    /\ probe.fn = "ResolveSlot"
    /\ probe.args = <<"PCIE_3_SLOT2", "01">>
    /\ probe.out[1].group = "PCIE_3"
    /\ probe.out[1].inner = "Top"
    /\ probe.out[1].gpulabel = "GPU3"

\* The reports stand in discovery order.
InDiscoveryOrder ==
    \A j, k \in 1..Len(rows) : j < k => Pos(rows[j].bdf) < Pos(rows[k].bdf)

\* C9: whatever the order of the visits, each report is the one its own
\* GPU's chain and link fields give under the catalog; reports of GPUs with
\* the same link fields agree on status and link values, reports of GPUs
\* with the same ancestors agree on slot label and location; the outcome is
\* failed exactly when some chained GPU has a lane regression.
C9_ReportsIndependent ==
    /\ InDiscoveryOrder
    /\ \A k \in 1..Len(rows) :
          /\ RowGpu(k) \in DOMAIN hw
          /\ rows[k] = BuildRow(RowGpu(k), RowHw(k).chain, RowHw(k).link,
                                rows[k].name, dmi_desig)
          /\ \A j \in 1..Len(rows) :
                /\ RowHw(j).link = RowHw(k).link =>
                      /\ rows[j].status = rows[k].status
                      /\ <<rows[j].cap_s, rows[j].cap_w, rows[j].sta_s, rows[j].sta_w>>
                           = <<rows[k].cap_s, rows[k].cap_w, rows[k].sta_s, rows[k].sta_w>>
                /\ SubSeq(RowHw(j).chain, 1, Len(RowHw(j).chain) - 1)
                       = SubSeq(RowHw(k).chain, 1, Len(RowHw(k).chain) - 1) =>
                      /\ rows[j].slot_name = rows[k].slot_name
                      /\ rows[j].location = rows[k].location
    /\ pc = "done" =>
          /\ DOMAIN hw = {gpus[k] : k \in 1..Len(gpus)}
          /\ {rows[k].bdf : k \in 1..Len(rows)} = {g \in DOMAIN hw : Chained(g)}
          /\ outcome = "failed" <=>
                \E g \in DOMAIN hw : Chained(g) /\ LaneRegression(hw[g].link)

\* The second GPU visited before the first, and found DOWNGRADED.
C9_Witness ==
    /\ pc = "loop"
    /\ Len(gpus) >= 2
    /\ gpus[1] \notin DOMAIN hw
    /\ gpus[2] \in DOMAIN hw
    /\ Len(rows) = 1
    /\ rows[1].status = "DOWNGRADED"

\* C10 as claimed: two root ports with the same bus and function have the
\* same firmware key.
C10_KeyFromBusAndFunction ==
    (/\ probe.fn = "dmi_key_from_bdf"
     /\ probe.oracle[1].wf
     /\ probe.oracle[2].wf
     /\ probe.oracle[1].bus = probe.oracle[2].bus
     /\ probe.oracle[1].fn = probe.oracle[2].fn) => probe.out[1] = probe.out[2]

\* C10: the key of an address is the text of the four fields bus, device, 0
\* and function, in lower case, and "" for a text that is no address; two
\* addresses have the same key exactly when they agree on bus, device and
\* function.
C10_KeyFromBusDeviceFunction ==
    probe.fn = "dmi_key_from_bdf" =>
        LET a == probe.oracle[1]
            b == probe.oracle[2]
        IN  /\ probe.out[1] = (IF a.wf THEN AddrText(a.bus, a.dev, 0, a.fn, FALSE) ELSE "")
            /\ (a.wf /\ b.wf) =>
                  (probe.out[1] = probe.out[2]
                      <=> (a.bus = b.bus /\ a.dev = b.dev /\ a.fn = b.fn))

\* Same bus and function, another device: two keys.
C10_Witness ==
    /\ probe.fn = "dmi_key_from_bdf"
    /\ probe.oracle[1].wf
    /\ probe.oracle[2].wf
    /\ probe.oracle[1].bus = probe.oracle[2].bus
    /\ probe.oracle[1].fn = probe.oracle[2].fn
    /\ probe.oracle[1].dev # probe.oracle[2].dev
    /\ probe.out[1] # probe.out[2]

\* The catalog the carry-forward rule gives for blocks given by their
\* fields: st holds the records emitted and the designation and type
\* carried so far.
RECURSIVE CarryForward(_, _)
CarryForward(st, blocks) ==
    IF Len(blocks) = 0 THEN st
    ELSE LET b  == Head(blocks)
             cd == IF b.desig # "" THEN b.desig ELSE st.cd
             ct == IF b.type # "" THEN b.type ELSE st.ct
         IN  CarryForward(
                 [desig |-> IF b.addr # "" /\ cd # "" THEN MapPut(st.desig, b.addr, cd)
                            ELSE st.desig,
                  type  |-> IF b.addr # "" /\ cd # "" THEN MapPut(st.type, b.addr, ct)
                            ELSE st.type,
                  cd |-> cd, ct |-> ct],
                 Tail(blocks))

CarryForwardCatalog(blocks) ==
    CarryForward([desig |-> EmptyMap, type |-> EmptyMap, cd |-> "", ct |-> ""], blocks)

\* The catalog of the probe is the carry-forward catalog of its blocks: the
\* same addresses, the same designations, and the same type wherever a type
\* had been seen.
CatalogIsCarryForward ==
    LET want == CarryForwardCatalog(probe.oracle)
        got  == probe.out[1]
    IN  /\ DOMAIN got.desig = DOMAIN want.desig
        /\ DOMAIN got.type = DOMAIN got.desig
        /\ \A a \in DOMAIN want.desig :
              /\ got.desig[a] = want.desig[a]
              /\ got.desig[a] # ""
              /\ want.type[a] # "" => got.type[a] = want.type[a]

\* C11: the catalog parse_dmi_slots builds from any sequence of blocks is
\* the carry-forward fold of the designations, types and addresses the
\* blocks define, the last record of an address winning; a block with an
\* address and no designation carried emits nothing.
C11_CatalogIsCarryForwardFold ==
    probe.fn = "parse_dmi_slots" => CatalogIsCarryForward

\* C11 for tables in which every Designation has a value: the fold holds.
C11_FoldWhenNoBlankDesignation ==
    (/\ probe.fn = "parse_dmi_slots"
     /\ \A k \in 1..Len(probe.args) :
           \A j \in 1..Len(probe.args[k]) : probe.args[k][j] # "\tDesignation: ") =>
        CatalogIsCarryForward

\* The riser groups and inner positions of the eight mapped bays.
MappedGroups == {"PCIE_1", "PCIE_2", "PCIE_3", "PCIE_4"}

MappedInner == {"Top", "Bottom"}

BayLabels == {"GPU1", "GPU2", "GPU3", "GPU4", "GPU5", "GPU6", "GPU7", "GPU8"}

\* The last character of a key.
KeySuffix(key) == SubSeq(key, Len(key), Len(key))

\* C12: a (group, inner position) outside the eight mapped bays has the bay
\* label ERROR; the key ends in 1 only for Top and in 2 only for Bottom, so
\* an inner position ERROR never has a label GPU1..GPU8.
C12_UnmappedBayIsError ==
    probe.fn = "ResolveSlot" =>
        LET r == probe.out[1]
        IN  /\ (r.group \notin MappedGroups \/ r.inner \notin MappedInner) =>
                  r.gpulabel = "ERROR"
            /\ KeySuffix(r.key) = "1" => r.inner = "Top"
            /\ KeySuffix(r.key) = "2" => r.inner = "Bottom"
            /\ r.inner = "ERROR" => r.gpulabel \notin BayLabels

\* C12 for the groups outside PCIE_1..PCIE_4 alone: the label is ERROR.
C12_UnknownGroupIsError ==
    (probe.fn = "ResolveSlot" /\ probe.out[1].group \notin MappedGroups) =>
        probe.out[1].gpulabel = "ERROR"

\* The bay label of a row: the text of slot_name before " (".
BayLabelOf(row) ==
    LET n == CHOOSE k \in 1..Len(row.slot_name) :
                 /\ Char(row.slot_name, k) = " "
                 /\ \A j \in 1..(k - 1) : Char(row.slot_name, j) # " "
    IN  SubSeq(row.slot_name, 1, n - 1)

\* The riser group is one of 1..4 and the bridge device number 0 or 1.
InBays(group, dev) == group \in 1..4 /\ dev \in {0, 1}

\* C13: over the riser groups PCIE_1..PCIE_4 and the bridge device numbers
\* 0 and 1 the bay label is one of GPU1..GPU8 and the location has no ERROR
\* part; two such GPUs have the same bay label exactly when they share group
\* and device number, and likewise the same location; every label
\* GPU1..GPU8 is the label of one of the eight pairs.
C13_ResolverInjective ==
    probe.fn = "BuildRowPair" =>
        LET g1 == probe.oracle[1]
            d1 == probe.oracle[2]
            g2 == probe.oracle[3]
            d2 == probe.oracle[4]
            r1 == probe.out[1]
            r2 == probe.out[2]
        IN  /\ InBays(g1, d1) =>
                  /\ BayLabelOf(r1) \in BayLabels
                  /\ ~Contains(r1.location, "ERROR")
            /\ (InBays(g1, d1) /\ InBays(g2, d2)) =>
                  /\ BayLabelOf(r1) = BayLabelOf(r2) <=> (g1 = g2 /\ d1 = d2)
                  /\ r1.location = r2.location <=> (g1 = g2 /\ d1 = d2)
            /\ \A l \in BayLabels :
                  \E s \in GroupSlotSamples, d \in BridgeDevSamples :
                      InBays(s.group, d) /\ BayLabelOf(RowBehind(s, d)) = l

\* Two GPUs in different bays of the front risers: PCIE_3 behind bridge
\* device 1 and PCIE_4 behind bridge device 0.
C13_Witness ==
    /\ probe.fn = "BuildRowPair"
    /\ probe.oracle = <<3, 1, 4, 0>>
    /\ BayLabelOf(probe.out[1]) = "GPU3"
    /\ BayLabelOf(probe.out[2]) = "GPU7"
    /\ probe.out[1].location = "Front-Right-Top"
    /\ probe.out[2].location = "Front-Left-Top"

===========================================================================
